---- MODULE Spec2Model ----
(***************************************************************************)
(* Model of the in-memory game-session engine of the Cantonese word game   *)
(* (services/api.ts, the mock ApiClient) together with the calls the game  *)
(* page makes on it.                                                       *)
(*                                                                         *)
(* Every ApiClient method is "await this.delay(ms)" followed by one        *)
(* synchronous block.  JavaScript runs that block to completion, so each   *)
(* method is one atomic effect, taken when its delay is over; what can     *)
(* interleave is the order in which the effects of overlapping calls land. *)
(* A call carries nothing but its arguments through the delay.  The one    *)
(* call whose arguments are read from a session that may change meanwhile  *)
(* is submitPronunciation (800 ms, the longest delay): it is split into    *)
(* the call, which queues the request in `inflight`, and the effect.       *)
(*                                                                         *)
(* The ApiClient methods say nothing about `page`, the state of the game   *)
(* page (pages/GamePage.tsx): the page's handlers call them, and where no  *)
(* game page is mounted the callers leave `page` as it is.                 *)
(***************************************************************************)
EXTENDS Integers, Sequences, FiniteSets, TLC

VARIABLES
    mockUsers,         \* let mockUsers: User[]
    mockDecks,         \* let mockDecks: Deck[]
    mockWords,         \* let mockWords: Word[]
    mockGameSessions,  \* let mockGameSessions: GameSession[]
    mockStatistics,    \* let mockStatistics: Map<string, GameStatistics>
    currentUser,       \* localStorage 'user' (the id), NoUser when absent
    now,               \* Date.now()
    inflight,          \* submitPronunciation calls still in delay(800)
    result,            \* how the most recently settled call resolved
    page,              \* GamePage: its state, refs and pending callbacks
    adminCalls,        \* number of deck / word administration calls made
    attempts,          \* history: per session and word, attempts written
    lastAttempt,       \* history: the attempt written most recently
    endReturns,        \* history: per session, the scores endGame returned
    associations       \* history: the (student, teacher) pairs associated

vars == <<mockUsers, mockDecks, mockWords, mockGameSessions, mockStatistics,
          currentUser, now, inflight, result, page, adminCalls, attempts,
          lastAttempt, endReturns, associations>>

store == <<mockUsers, mockDecks, mockWords>>
history == <<adminCalls, attempts, lastAttempt, endReturns, associations>>

(***************************************************************************)
(* Bounds of the model.                                                    *)
(***************************************************************************)
MaxSessions == 1
MaxSubmits == 2
MaxEndCalls == 2
MaxClock == 2
MaxInFlight == 1
MaxAdminCalls == 2
MaxRecordings == 2
MaxPendingStarts == 2

ResponseTimes == {500, 1200}

\* request.realTimeRecognition: empty, or some text the recognizer produced
RecognitionTexts == {"", "heard"}

(***************************************************************************)
(* Values.                                                                 *)
(***************************************************************************)
NoUser == "none"

\* JavaScript values of a score: a number, NaN, or undefined (field absent)
Num(n) == [kind |-> "number", v |-> n]
NaN == [kind |-> "NaN", v |-> 0]
Undefined == [kind |-> "undefined", v |-> 0]
IsNum(x) == x.kind = "number"
Now0 == 100

\* setTimeout(..., 5000) of the recorder: the longest a recording can last.
MaxRecordingMs == 5000

InitUsers ==
    << [id |-> "admin-1",   username |-> "admin",    role |-> "admin"],
       [id |-> "student-1", username |-> "student1", role |-> "student"],
       [id |-> "teacher-1", username |-> "teacher1", role |-> "teacher"] >>

InitDecks ==
    << [id |-> 1, wordCount |-> 20],
       [id |-> 2, wordCount |-> 15],
       [id |-> 3, wordCount |-> 18] >>

InitWords ==
    << [id |-> 1, deckId |-> 1], [id |-> 2, deckId |-> 1],
       [id |-> 3, deckId |-> 1], [id |-> 4, deckId |-> 2],
       [id |-> 5, deckId |-> 2], [id |-> 6, deckId |-> 3],
       [id |-> 7, deckId |-> 3] >>

(***************************************************************************)
(* Array helpers.                                                          *)
(***************************************************************************)
\* Array.prototype.filter is SelectSeq.
\* Array.prototype.find: the FIRST of the matching positions, 0 if none
FirstIndex(matching) ==
    IF matching = {} THEN 0
    ELSE CHOOSE i \in matching : \A j \in matching : i <= j

RECURSIVE SumTimes(_)
SumTimes(words) ==
    IF words = <<>> THEN 0
    ELSE Head(words).responseTime + SumTimes(Tail(words))

Max(a, b) == IF a >= b THEN a ELSE b

RECURSIVE GCD(_, _)
GCD(a, b) == IF b = 0 THEN a ELSE GCD(b, a % b)

\* a number that need not be an integer, kept as a fraction in lowest terms
Frac(n, d) == LET g == GCD(n, d) IN IF g = 0 THEN <<0, 1>> ELSE <<n \div g, d \div g>>

(***************************************************************************)
(* getWordsByDeck: mockWords.filter(w => w.deckId === deckId)              *)
(***************************************************************************)
getWordsByDeck(deckId) ==
    LET InDeck(w) == w.deckId = deckId IN SelectSeq(mockWords, InDeck)

\* a shuffle that draws every position afresh, so a word can come twice
ShufflesWithRepeats(words) ==
    LET n == Len(words) IN {[i \in 1..n |-> words[f[i]]] : f \in [1..n -> 1..n]}

(***************************************************************************)
(* [...words].sort(() => Math.random() - 0.5): a sort under a comparator   *)
(* that answers at random.  The result holds the same elements in an order *)
(* the engine chooses; every order is possible.                            *)
(***************************************************************************)
Shuffles(words) ==
    LET n == Len(words)
        Perms == {p \in [1..n -> 1..n] : \A i, j \in 1..n : p[i] = p[j] => i = j}
    IN  {[i \in 1..n |-> words[p[i]]] : p \in Perms}

(***************************************************************************)
(* The GameWord entries a new session starts with.                         *)
(***************************************************************************)
NewGameWords(shuffled) ==
    [i \in 1..Len(shuffled) |->
        [wordId |-> shuffled[i].id, responseTime |-> 0, isCorrect |-> FALSE]]

\* a write that keeps the first graded attempt of a word
WriteAttemptKeepFirst(words, wordId, isCorrect, responseTime) ==
    LET k == IF \E i \in DOMAIN words : words[i].wordId = wordId
             THEN CHOOSE i \in DOMAIN words : words[i].wordId = wordId ELSE 0
    IN  IF k = 0 \/ words[k].responseTime # 0 THEN words
        ELSE [words EXCEPT ![k] = [@ EXCEPT !.isCorrect = isCorrect,
                                            !.responseTime = responseTime]]

(***************************************************************************)
(* submitPronunciation's write: session.words.find(...) then assignment to *)
(* the entry found.                                                        *)
(***************************************************************************)
WriteAttempt(words, wordId, isCorrect, responseTime) ==
    LET Is(w) == w.wordId = wordId
        k == FirstIndex({findIx \in DOMAIN words : Is(words[findIx])})
    IN  IF k = 0 THEN words
        ELSE [words EXCEPT ![k] = [@ EXCEPT !.isCorrect = isCorrect,
                                            !.responseTime = responseTime]]

(***************************************************************************)
(* endGame's score.  avgTime = totalTime / words.length is a double; for   *)
(* a non-empty session Math.floor(avgTime / 1000) is the integer quotient  *)
(* of totalTime by 1000 * length.  For an empty session 0 / 0 is NaN and   *)
(* Math.max(0, NaN) is NaN.                                                *)
(***************************************************************************)
CorrectCount(words) == Cardinality({i \in DOMAIN words : words[i].isCorrect})

\* a score that charges the total response time instead of the average
ComputeScoreTotalTime(words) ==
    IF Len(words) = 0 THEN NaN
    ELSE Num(Max(0, Cardinality({i \in DOMAIN words : words[i].isCorrect}) * 100
                    - (SumTimes(words) \div 1000) * 10))

ComputeScore(words) ==
    IF Len(words) = 0 THEN NaN
    ELSE Num(Max(0, CorrectCount(words) * 100
                    - (SumTimes(words) \div (1000 * Len(words))) * 10))

\* JavaScript truthiness of session.score
Truthy(score) == IsNum(score) /\ score.v # 0

(***************************************************************************)
(* updateStatistics(session)                                               *)
(***************************************************************************)
EmptyStats ==
    [totalGames |-> 0, averageScore |-> <<0, 1>>, bestScore |-> 0,
     currentStreak |-> 0, longestStreak |-> 0,
     scoresByDate |-> <<>>, topWrongWords |-> <<>>]

StatsKey(userId) == <<userId, "all">>

\* one step of session.words.forEach((w) => { if (!w.isCorrect) ... })
CountWrongWord(top, w) ==
    IF w.isCorrect THEN top
    ELSE LET Is(tw) == tw.wordId = w.wordId
             k == FirstIndex({findIx \in DOMAIN top : Is(top[findIx])})
         IN  IF k # 0
             THEN [top EXCEPT ![k] =
                     [wordId |-> @.wordId,
                      wrongCount |-> @.wrongCount + 1,
                      totalAttempts |-> @.totalAttempts + 1,
                      ratio |-> Frac(@.wrongCount + 1, @.totalAttempts + 1)]]
             ELSE Append(top, [wordId |-> w.wordId, wrongCount |-> 1,
                               totalAttempts |-> 1, ratio |-> <<1, 1>>])

RECURSIVE CountWrongWords(_, _)
CountWrongWords(top, words) ==
    IF words = <<>> THEN top
    ELSE CountWrongWords(CountWrongWord(top, Head(words)), Tail(words))

updateStatistics(stats, session) ==
    LET old == IF StatsKey(session.userId) \in DOMAIN stats
               THEN stats[StatsKey(session.userId)] ELSE EmptyStats
        n == old.totalGames + 1
        avg == IF Truthy(session.score)
               THEN Frac(old.averageScore[1] * (n - 1)
                           + session.score.v * old.averageScore[2],
                         old.averageScore[2] * n)
               ELSE old.averageScore
        best == IF Truthy(session.score)
                THEN Max(old.bestScore, session.score.v) ELSE old.bestScore
        new == [old EXCEPT !.totalGames = n,
                           !.averageScore = avg,
                           !.bestScore = best,
                           !.topWrongWords = CountWrongWords(@, session.words)]
    IN  [k \in DOMAIN stats \cup {StatsKey(session.userId)} |->
            IF k = StatsKey(session.userId) THEN new ELSE stats[k]]

(***************************************************************************)
(* Lookups.                                                                *)
(***************************************************************************)
\* a lookup that takes the oldest session whatever id is asked for
FindSessionOldest(sessionId) ==
    IF mockGameSessions = <<>> THEN 0 ELSE 1

\* mockGameSessions.find((s) => s.id === sessionId), as a position
FindSession(sessionId) ==
    LET Is(s) == s.id = sessionId IN FirstIndex({findIx \in DOMAIN mockGameSessions : Is(mockGameSessions[findIx])})

SessionIds == {mockGameSessions[i].id : i \in DOMAIN mockGameSessions}

WordIdsOf(words) == {words[i].wordId : i \in DOMAIN words}

Resolved(op) == [op |-> op, error |-> "none"]
Rejected(op, message) == [op |-> op, error |-> message]

NoAttempt == [sessionId |-> 0, wordId |-> 0, ended |-> FALSE, live |-> FALSE]

\* no game page is mounted
NoPage == [mounted |-> FALSE]
NotAttempted == [n |-> 0, isCorrect |-> FALSE, responseTime |-> 0]

(***************************************************************************)
(* Initial state: the module-level declarations of api.ts.                 *)
(***************************************************************************)
Init ==
    /\ mockUsers = InitUsers
    /\ mockDecks = InitDecks
    /\ mockWords = InitWords
    /\ mockGameSessions = <<>>
    /\ mockStatistics = <<>>
    /\ currentUser = NoUser
    /\ now = Now0
    /\ inflight = <<>>
    /\ result = Resolved("init")
    /\ page = NoPage
    /\ adminCalls = 0
    /\ attempts = <<>>
    /\ lastAttempt = NoAttempt
    /\ endReturns = <<>>
    /\ associations = {}

(***************************************************************************)
(* login / logout.  The password is compared only by what login looks at.  *)
(***************************************************************************)
Usernames == {"student1", "nonexistent"}
Passwords == {"password123", "pw"}
PasswordLength(p) ==
    IF p = "password123" THEN 11 ELSE IF p = "cantonese" THEN 9 ELSE 2

Login(username, password) ==
    LET Is(u) == u.username = username
        k == FirstIndex({findIx \in DOMAIN mockUsers : Is(mockUsers[findIx])})
    IN  /\ IF k = 0
           THEN /\ result' = Rejected("login", "Invalid username or password")
                /\ UNCHANGED currentUser
           ELSE IF mockUsers[k].role = "admin" /\ password # "cantonese"
           THEN /\ result' = Rejected("login", "Invalid username or password")
                /\ UNCHANGED currentUser
           ELSE IF mockUsers[k].role # "admin" /\ PasswordLength(password) < 3
           THEN /\ result' = Rejected("login", "Invalid username or password")
                /\ UNCHANGED currentUser
           ELSE /\ currentUser' = mockUsers[k].id
                /\ result' = Resolved("login")
        /\ UNCHANGED <<store, mockGameSessions, mockStatistics, now, inflight,
                       history>>

Logout ==
    /\ currentUser # NoUser
    /\ currentUser' = NoUser
    /\ result' = Resolved("logout")
    /\ UNCHANGED <<store, mockGameSessions, mockStatistics, now, inflight,
                   history>>

(***************************************************************************)
(* register(data).  The id is `${data.role}-${Date.now()}`; registrations  *)
(* are made one form submission at a time, each behind its own delay, so   *)
(* the clock has moved on between two of them.                             *)
(***************************************************************************)
RegisterNames == {"student1", "newuser", "duplicate"}
RegisterRoles == {"student", "teacher"}

\* `${role}-${Date.now()}` for the clock values the model reaches
RegisteredId(role, t) ==
    LET ids == [student |-> <<"student-100", "student-101", "student-102",
                              "student-103", "student-104">>,
                teacher |-> <<"teacher-100", "teacher-101", "teacher-102",
                              "teacher-103", "teacher-104">>]
    IN  ids[role][t - Now0 + 1]

UsernameTaken(username) ==
    \E i \in DOMAIN mockUsers : mockUsers[i].username = username

\* a register that skips the mockUsers.some(...) test
RegisterUnchecked(username, role) ==
    /\ now < Now0 + MaxClock
    /\ mockUsers' = Append(mockUsers,
            [id |-> RegisteredId(role, now), username |-> username,
             role |-> role])
    /\ currentUser' = RegisteredId(role, now)
    /\ now' = now + 1
    /\ result' = [op |-> "register", error |-> "none", username |-> username]
    /\ UNCHANGED <<mockDecks, mockWords, mockGameSessions, mockStatistics,
                   inflight, history>>

Register(username, role) ==
    /\ now < Now0 + MaxClock
    /\ IF UsernameTaken(username)
       THEN /\ result' = [op |-> "register",
                          error |-> "Username already exists",
                          username |-> username]
            /\ UNCHANGED <<mockUsers, currentUser, now>>
       ELSE /\ mockUsers' = Append(mockUsers,
                    [id |-> RegisteredId(role, now), username |-> username,
                     role |-> role])
            /\ currentUser' = RegisteredId(role, now)
            /\ now' = now + 1
            /\ result' = [op |-> "register", error |-> "none",
                          username |-> username]
    /\ UNCHANGED <<mockDecks, mockWords, mockGameSessions, mockStatistics,
                   inflight, history>>

(***************************************************************************)
(* getStudents() and associateStudentWithTeacher(studentId, teacherId).    *)
(* getStudents reads neither its caller nor any association; `caller` in   *)
(* its result is who was signed in when it was called.  The association    *)
(* call logs its arguments and stores nothing: `associations` is the       *)
(* history of those calls.                                                 *)
(***************************************************************************)
\* Math.floor(Math.random() * 10), Math.floor(Math.random() * 5000): the
\* least and the greatest draw
MockStudentDraws ==
    { [streak |-> 0, totalScore |-> 0], [streak |-> 9, totalScore |-> 4999] }

IsStudent(u) == u.role = "student"

GetStudents ==
    /\ LET all == SelectSeq(mockUsers, IsStudent)
       IN  \E draws \in [DOMAIN all -> MockStudentDraws] :
             result' = [op |-> "getStudents", error |-> "none",
                        caller |-> currentUser,
                        students |->
                          [i \in DOMAIN all |->
                             [id |-> all[i].id, streak |-> draws[i].streak,
                              totalScore |-> draws[i].totalScore]]]
    /\ UNCHANGED <<store, mockGameSessions, mockStatistics, currentUser, now,
                   inflight, history>>

AssociateStudentWithTeacher(studentId, teacherId) ==
    /\ associations' = associations \cup {<<studentId, teacherId>>}
    /\ result' = Resolved("associateStudentWithTeacher")
    /\ UNCHANGED <<store, mockGameSessions, mockStatistics, currentUser, now,
                   inflight, adminCalls, attempts, lastAttempt, endReturns>>

(***************************************************************************)
(* Deck and word administration.  Ids are built from Date.now(); the calls *)
(* are issued one user action at a time, each behind its own delay, so the *)
(* clock has moved on between two of them.                                 *)
(***************************************************************************)
ClockLeft == now < Now0 + MaxClock

DeckIds == {mockDecks[i].id : i \in DOMAIN mockDecks}
WordIds == {mockWords[i].id : i \in DOMAIN mockWords}

AdminLeft == adminCalls < MaxAdminCalls

CreateDeck ==
    /\ ClockLeft
    /\ AdminLeft
    /\ adminCalls' = adminCalls + 1
    /\ mockDecks' = Append(mockDecks, [id |-> now, wordCount |-> 0])
    /\ now' = now + 1
    /\ result' = Resolved("createDeck")
    /\ UNCHANGED <<mockUsers, mockWords, mockGameSessions, mockStatistics,
                   currentUser, inflight, attempts, lastAttempt, endReturns,
                   associations>>

DeleteDeck(deckId) ==
    LET KeepDeck(d) == d.id # deckId
        KeepWord(w) == w.deckId # deckId
    IN  /\ AdminLeft
        /\ adminCalls' = adminCalls + 1
        /\ mockDecks' = SelectSeq(mockDecks, KeepDeck)
        /\ mockWords' = SelectSeq(mockWords, KeepWord)
        /\ result' = Resolved("deleteDeck")
        /\ UNCHANGED <<mockUsers, mockGameSessions, mockStatistics,
                       currentUser, now, inflight, attempts, lastAttempt,
                       endReturns,
                   associations>>

AddWord(deckId) ==
    LET Is(d) == d.id = deckId
        k == FirstIndex({findIx \in DOMAIN mockDecks : Is(mockDecks[findIx])})
    IN  /\ ClockLeft
        /\ AdminLeft
        /\ adminCalls' = adminCalls + 1
        /\ mockWords' = Append(mockWords, [id |-> now, deckId |-> deckId])
        /\ mockDecks' = IF k = 0 THEN mockDecks
                        ELSE [mockDecks EXCEPT ![k].wordCount = @ + 1]
        /\ now' = now + 1
        /\ result' = Resolved("addWord")
        /\ UNCHANGED <<mockUsers, mockGameSessions, mockStatistics,
                       currentUser, inflight, attempts, lastAttempt,
                       endReturns,
                   associations>>

DeleteWord(wordId) ==
    LET IsWord(w) == w.id = wordId
        kw == FirstIndex({findIx \in DOMAIN mockWords : IsWord(mockWords[findIx])})
        IsDeck(d) == d.id = mockWords[kw].deckId
        kd == IF kw = 0 THEN 0 ELSE FirstIndex({findIx \in DOMAIN mockDecks : IsDeck(mockDecks[findIx])})
        KeepWord(w) == w.id # wordId
    IN  /\ AdminLeft
        /\ adminCalls' = adminCalls + 1
        /\ mockDecks' = IF kd = 0 THEN mockDecks
                        ELSE [mockDecks EXCEPT ![kd].wordCount = @ - 1]
        /\ mockWords' = SelectSeq(mockWords, KeepWord)
        /\ result' = Resolved("deleteWord")
        /\ UNCHANGED <<mockUsers, mockGameSessions, mockStatistics,
                       currentUser, now, inflight, attempts, lastAttempt,
                       endReturns,
                   associations>>

(***************************************************************************)
(* startGame(request).  The session id is `session-${Date.now()}`; the     *)
(* game page starts one session per visit, so the clock has moved on       *)
(* between two of them.                                                    *)
(***************************************************************************)
StartGame(deckId) ==
    /\ Len(mockGameSessions) < MaxSessions
    /\ ClockLeft
    /\ \E shuffledWords \in Shuffles(getWordsByDeck(deckId)) :
         IF currentUser = NoUser
         THEN \* getCurrentUserId() throws inside the object literal
              /\ result' = Rejected("startGame", "Not authenticated")
              /\ UNCHANGED <<mockGameSessions, now, history>>
         ELSE /\ mockGameSessions' = Append(mockGameSessions,
                    [id |-> now, userId |-> currentUser, deckId |-> deckId,
                     startTime |-> now, endTime |-> Undefined,
                     score |-> Undefined,
                     words |-> NewGameWords(shuffledWords)])
              /\ now' = now + 1
              /\ result' = Resolved("startGame")
              /\ attempts' = Append(attempts,
                    [w \in {shuffledWords[i].id : i \in DOMAIN shuffledWords}
                        |-> NotAttempted])
              /\ endReturns' = Append(endReturns, <<>>)
              /\ UNCHANGED <<adminCalls, lastAttempt, associations>>
    /\ UNCHANGED <<store, mockStatistics, currentUser, inflight>>

(***************************************************************************)
(* submitPronunciation(request): the call, and the block after the delay.  *)
(* Timers of equal delay fire in the order they were set, so the requests  *)
(* land first in, first out.                                               *)
(***************************************************************************)
RECURSIVE SumOver(_, _)
SumOver(f, S) ==
    IF S = {} THEN 0
    ELSE LET x == CHOOSE y \in S : TRUE IN f[x] + SumOver(f, S \ {x})

SubmitsWritten ==
    LET per == [k \in DOMAIN attempts |->
                  SumOver([w \in DOMAIN attempts[k] |-> attempts[k][w].n],
                          DOMAIN attempts[k])]
    IN  SumOver(per, DOMAIN per)

IsEnded(session) == session.endTime # Undefined

SubmitCall(sessionId, wordId, responseTime, realTimeRecognition) ==
    /\ Len(inflight) < MaxInFlight
    /\ SubmitsWritten + Len(inflight) < MaxSubmits
    /\ inflight' = Append(inflight,
            [sessionId |-> sessionId, wordId |-> wordId,
             responseTime |-> responseTime,
             realTimeRecognition |-> realTimeRecognition,
             live |-> LET k == FindSession(sessionId)
                      IN  k # 0 /\ ~IsEnded(mockGameSessions[k])])
    /\ UNCHANGED <<store, mockGameSessions, mockStatistics, currentUser, now,
                   result, history>>

SubmitEffect(isCorrect) ==
    /\ inflight # <<>>
    /\ LET req == Head(inflight)
           k == FindSession(req.sessionId)
           written == k # 0 /\ req.wordId \in WordIdsOf(mockGameSessions[k].words)
       IN  /\ inflight' = Tail(inflight)
           /\ mockGameSessions' =
                IF k = 0 THEN mockGameSessions
                ELSE [mockGameSessions EXCEPT ![k].words =
                        WriteAttempt(@, req.wordId, isCorrect, req.responseTime)]
           /\ IF written
              THEN /\ attempts' = [attempts EXCEPT ![k][req.wordId] =
                                      [n |-> @.n + 1, isCorrect |-> isCorrect,
                                       responseTime |-> req.responseTime]]
                   /\ lastAttempt' =
                        [sessionId |-> req.sessionId, wordId |-> req.wordId,
                         ended |-> IsEnded(mockGameSessions[k]),
                         live |-> req.live]
              ELSE UNCHANGED <<attempts, lastAttempt>>
           /\ result' = Resolved("submitPronunciation")
    /\ UNCHANGED <<store, mockStatistics, currentUser, now, adminCalls,
                   endReturns,
                   associations>>

(***************************************************************************)
(* endGame(sessionId)                                                      *)
(***************************************************************************)
EndsReturned ==
    LET per == [k \in DOMAIN endReturns |-> Len(endReturns[k])]
    IN  SumOver(per, DOMAIN per)

EndGame(sessionId) ==
    LET k == FindSession(sessionId)
    IN  /\ EndsReturned < MaxEndCalls
        /\ IF k = 0
           THEN /\ result' = Rejected("endGame", "Session not found")
                /\ UNCHANGED <<mockGameSessions, mockStatistics, endReturns>>
           ELSE LET session == [mockGameSessions[k] EXCEPT
                                  !.score = ComputeScore(mockGameSessions[k].words),
                                  !.endTime = Num(now)]
                IN  /\ mockGameSessions' = [mockGameSessions EXCEPT ![k] = session]
                    /\ mockStatistics' = updateStatistics(mockStatistics, session)
                    /\ endReturns' = [endReturns EXCEPT ![k] = Append(@, session.score)]
                    /\ result' = Resolved("endGame")
        /\ UNCHANGED <<store, currentUser, now, inflight, adminCalls, attempts,
                       lastAttempt, associations>>

(***************************************************************************)
(* getStatistics(userId?, deckId?).  When the key is not in the map the    *)
(* call stores a generated entry and returns it.  Math.random() is a       *)
(* choice: each of the five generated wrong words draws its figures from   *)
(* MockWrongWordDraws, values of the ranges the code draws from            *)
(* (wrongCount 1..5, totalAttempts 5..14, ratio in [0.3, 0.8), each drawn  *)
(* on its own, so ratio is not wrongCount / totalAttempts).  Of the seven  *)
(* generated scoresByDate entries only the date is kept (days before       *)
(* today); nothing modelled reads their random score.                      *)
(***************************************************************************)
Absent == ""

MockWrongWordDraws ==
    { [wrongCount |-> 5, totalAttempts |-> 14, ratio |-> <<3, 10>>],
      [wrongCount |-> 4, totalAttempts |-> 5,  ratio |-> <<1, 2>>] }

MockWrongWordCount == IF Len(mockWords) < 5 THEN Len(mockWords) ELSE 5

generateMockWrongWords ==
    { [i \in 1..MockWrongWordCount |->
          [wordId |-> mockWords[i].id, wrongCount |-> draw[i].wrongCount,
           totalAttempts |-> draw[i].totalAttempts, ratio |-> draw[i].ratio]] :
      draw \in [1..MockWrongWordCount -> MockWrongWordDraws] }

generateMockScores == [i \in 1..7 |-> [daysAgo |-> 7 - i]]

\* generated statistics that claim a current streak above the longest one
MockStatisticsStreaksSwapped(topWrongWords) ==
    [totalGames |-> 5, averageScore |-> <<750, 1>>, bestScore |-> 950,
     currentStreak |-> 5, longestStreak |-> 3,
     scoresByDate |-> generateMockScores, topWrongWords |-> topWrongWords]

MockStatistics(topWrongWords) ==
    [totalGames |-> 5, averageScore |-> <<750, 1>>, bestScore |-> 950,
     currentStreak |-> 3, longestStreak |-> 5,
     scoresByDate |-> generateMockScores, topWrongWords |-> topWrongWords]

GetStatistics(userId, deckId) ==
    /\ IF userId = Absent /\ currentUser = NoUser
       THEN \* getCurrentUserId() throws
            /\ result' = Rejected("getStatistics", "Not authenticated")
            /\ UNCHANGED mockStatistics
       ELSE LET targetUserId == IF userId # Absent THEN userId ELSE currentUser
                key == <<targetUserId, IF deckId # Absent THEN deckId ELSE "all">>
            IN  /\ IF key \notin DOMAIN mockStatistics
                   THEN \E topWrongWords \in generateMockWrongWords :
                          mockStatistics' =
                            [k \in DOMAIN mockStatistics \cup {key} |->
                               IF k = key THEN MockStatistics(topWrongWords)
                               ELSE mockStatistics[k]]
                   ELSE UNCHANGED mockStatistics
                /\ result' = Resolved("getStatistics")
    /\ UNCHANGED <<store, mockGameSessions, currentUser, now, inflight, history>>

(***************************************************************************)
(* StatisticsPage, the "top wrong words" card:                             *)
(*   statistics.topWrongWords.sort((a, b) => b.wrongCount - a.wrongCount)  *)
(* `statistics` is the object getStatistics returned, which is the object  *)
(* held in mockStatistics, and Array.prototype.sort sorts in place and is  *)
(* stable; slice(0, 20) keeps all of the at most seven words.              *)
(***************************************************************************)
InsertByWrongCount(sorted, tw) ==
    LET n == Cardinality({i \in DOMAIN sorted : sorted[i].wrongCount >= tw.wrongCount})
    IN  SubSeq(sorted, 1, n) \o <<tw>> \o SubSeq(sorted, n + 1, Len(sorted))

RECURSIVE SortIntoByWrongCount(_, _)
SortIntoByWrongCount(sorted, rest) ==
    IF rest = <<>> THEN sorted
    ELSE SortIntoByWrongCount(InsertByWrongCount(sorted, Head(rest)), Tail(rest))

SortByWrongCount(topWrongWords) == SortIntoByWrongCount(<<>>, topWrongWords)

RenderTopWrongWords(userId) ==
    /\ StatsKey(userId) \in DOMAIN mockStatistics
    /\ mockStatistics' = [mockStatistics EXCEPT
            ![StatsKey(userId)].topWrongWords = SortByWrongCount(@)]
    /\ UNCHANGED <<store, mockGameSessions, currentUser, now, inflight, result,
                   history>>

(***************************************************************************)
(* GamePage.  `page` holds the component's state (useState), its refs      *)
(* (useRef) and the callbacks that are pending with the values their       *)
(* closures captured:                                                      *)
(*   words          session.words of the page's `session` state: for each  *)
(*                  word, whether its isCorrect is true                    *)
(*   pendingStarts  handleRecord calls waiting in `await getUserMedia`     *)
(*   recorder       the MediaRecorder that is recording and that           *)
(*                  mediaRecorderRef points to, with the currentWordIndex, *)
(*                  realTimeRecognition and session state its onstop       *)
(*                  closure captured, and (history) `heard`, the latest    *)
(*                  recognized text shown during the recording             *)
(*   earlier        the MediaRecorders that are still recording after      *)
(*                  mediaRecorderRef was pointed to a newer one            *)
(*   recognitions   the SpeechRecognition instances created so far, each   *)
(*                  with the recording it was created for and its status:  *)
(*                  listening, stopping (stop() called, onend due), ended  *)
(*   recognizer     recognitionRef.current: an index of recognitions, 0    *)
(*                  for null                                               *)
(*   awaiting       onstop continuations waiting for submitPronunciation   *)
(*   feedbackWordIndex  (history) the word the verdict in lastFeedback was *)
(*                  given for                                              *)
(* A handler runs to completion, and the render and effects its state      *)
(* updates cause are taken with it.  A recognizer delivers results while   *)
(* it is listening.                                                        *)
(***************************************************************************)
NoRecorder ==
    [rec |-> 0, wordIndex |-> 0, realTimeRecognition |-> "", heard |-> "",
     words |-> <<>>]

MountedPage(sessionId, preRequestedActive) ==
    [mounted |-> TRUE, sessionId |-> sessionId, currentWordIndex |-> 1,
     isRecording |-> FALSE, isStarting |-> FALSE, isProcessing |-> FALSE,
     showFeedback |-> FALSE, lastFeedback |-> "none", gameComplete |-> FALSE,
     error |-> FALSE,
     realTimeRecognition |-> "", realTimeRecognitionRef |-> "",
     preRequestedActive |-> preRequestedActive,
     pendingStarts |-> <<>>, recorder |-> NoRecorder, recognizer |-> 0,
     awaiting |-> <<>>, recordings |-> 0,
     words |-> [i \in DOMAIN mockGameSessions[FindSession(sessionId)].words
                  |-> FALSE],
     earlier |-> <<>>, recognitions |-> <<>>,
     shouldStopRecognition |-> FALSE, feedbackWordIndex |-> 0]

\* every variable but `page`
api == <<mockUsers, mockDecks, mockWords, mockGameSessions, mockStatistics,
         currentUser, now, inflight, result, adminCalls, attempts,
         lastAttempt, endReturns, associations>>

\* what the recognizer of a recording makes of the speech of that recording
RecordingTexts == <<"heard-1", "heard-2", "heard-3">>

\* session.words of the page's session
PageWords == mockGameSessions[FindSession(page.sessionId)].words

\* the page shows the card and its buttons: not the error screen
\* (`if (error) return ...`), not the completion screen
UserCanAct == page.mounted /\ ~page.error /\ ~page.gameComplete

\* recognitionRef.current.stop(); recognitionRef.current = null
StopRecognition(p) ==
    IF p.recognizer = 0 THEN p
    ELSE [p EXCEPT !.recognitions[p.recognizer].status = "stopping",
                   !.recognizer = 0]

\* useEffect(..., [isRecording, showFeedback]): the Web Speech recognizer.
\* The cleanup of the previous run stops the instance that run created if
\* recognitionRef still points to it; the body then stops or creates.
RecognitionEffect(old, new) ==
    IF old.isRecording = new.isRecording /\ old.showFeedback = new.showFeedback
    THEN new
    ELSE IF new.isRecording /\ ~new.showFeedback
    THEN LET cleaned == StopRecognition(new)
         IN  [cleaned EXCEPT
                !.recognitions = Append(@, [rec |-> new.recorder.rec,
                                            status |-> "listening"]),
                !.recognizer = Len(cleaned.recognitions) + 1]
    ELSE [StopRecognition(new) EXCEPT
                !.realTimeRecognition = IF new.isRecording THEN @ ELSE ""]

\* useEffect(..., [currentWordIndex]): clear feedback and recognition
WordChangeEffect(new) ==
    [new EXCEPT !.lastFeedback = "none", !.showFeedback = FALSE,
                !.isProcessing = FALSE, !.realTimeRecognition = "",
                !.realTimeRecognitionRef = "", !.error = FALSE]

\* handleRecord while not recording, up to `await getUserMedia`.  The record
\* button is rendered when neither feedback nor processing is shown; Enter
\* and Space reach handleRecord through SwipeCard unless it is disabled
\* (isRecording || isStarting).
HandleRecordStart ==
    /\ UserCanAct
    /\ ~page.isRecording
    /\ \/ ~page.showFeedback /\ ~page.isProcessing
       \/ ~page.isStarting
    /\ Len(page.pendingStarts) < MaxPendingStarts
    /\ page.recordings + Len(page.pendingStarts) < MaxRecordings
    /\ page' = RecognitionEffect(page,
          [page EXCEPT !.lastFeedback = "none", !.showFeedback = FALSE,
                       !.error = FALSE, !.realTimeRecognition = "",
                       !.realTimeRecognitionRef = "",
                       !.isStarting = ~page.preRequestedActive,
                       !.pendingStarts = Append(@,
                           [wordIndex |-> page.currentWordIndex,
                            realTimeRecognition |-> page.realTimeRecognition,
                            words |-> page.words])])
    /\ UNCHANGED api

\* getUserMedia resolves: handleRecord goes on to mediaRecorder.start(100)
\* and points mediaRecorderRef to the new recorder
MicrophoneGranted ==
    /\ page.mounted
    /\ page.pendingStarts # <<>>
    /\ page' = RecognitionEffect(page,
          [page EXCEPT !.isStarting = FALSE, !.isRecording = TRUE,
                       !.preRequestedActive = TRUE,
                       !.recordings = @ + 1,
                       !.earlier = IF page.recorder = NoRecorder THEN @
                                   ELSE Append(@, page.recorder),
                       !.recorder =
                           [rec |-> page.recordings + 1,
                            wordIndex |-> Head(page.pendingStarts).wordIndex,
                            realTimeRecognition |->
                                Head(page.pendingStarts).realTimeRecognition,
                            heard |-> page.realTimeRecognition,
                            words |-> Head(page.pendingStarts).words],
                       !.shouldStopRecognition = FALSE,
                       !.pendingStarts = Tail(@)])
    /\ UNCHANGED api

\* getUserMedia rejects: the catch block of handleRecord
MicrophoneDenied ==
    /\ page.mounted
    /\ page.pendingStarts # <<>>
    /\ page' = RecognitionEffect(page,
          [page EXCEPT !.isStarting = FALSE, !.isRecording = FALSE,
                       !.error = TRUE, !.pendingStarts = Tail(@)])
    /\ UNCHANGED api

\* recognition.onresult with a non-empty displayText
RecognitionResult ==
    /\ page.mounted
    /\ page.recognizer # 0
    /\ page.recognitions[page.recognizer].status = "listening"
    /\ LET displayText == RecordingTexts[page.recognitions[page.recognizer].rec]
           Hear(r) == [r EXCEPT !.heard = displayText]
       IN  page' = [page EXCEPT
                !.realTimeRecognition = displayText,
                !.realTimeRecognitionRef = displayText,
                !.recorder = IF @ = NoRecorder THEN @ ELSE Hear(@),
                !.earlier = [i \in DOMAIN @ |-> Hear(@[i])]]
    /\ UNCHANGED api

\* a recognition.onend that restarts the instance whenever the isRecording
\* and showFeedback of its closure allow, whatever the refs say
RecognitionEndRestarts(i) ==
    /\ page.mounted
    /\ i \in DOMAIN page.recognitions
    /\ page.recognitions[i].status \in {"listening", "stopping"}
    /\ page' = [page EXCEPT !.recognitions[i].status = "listening"]
    /\ UNCHANGED api

\* recognition.onend of instance i: the instance has ended, by stop() or by
\* itself.  The isRecording and showFeedback of its closure are those of
\* the render that created it (true and false).
RecognitionEnd(i) ==
    /\ page.mounted
    /\ i \in DOMAIN page.recognitions
    /\ page.recognitions[i].status \in {"listening", "stopping"}
    /\ IF ~page.shouldStopRecognition /\ page.recognizer = i
       THEN page' = [page EXCEPT !.recognitions[i].status = "listening"]
       ELSE page' = [page EXCEPT
                !.recognitions[i].status = "ended",
                !.recognizer = IF @ = i THEN 0 ELSE @]
    /\ UNCHANGED api

\* mediaRecorder.onstop of recorder r, up to the call of submitPronunciation;
\* `rest` is the page without r among its recorders
OnStop(r, rest, hasAudio, responseTime) ==
    LET capturedRealTimeRecognition ==
            IF page.realTimeRecognitionRef # ""
            THEN page.realTimeRecognitionRef
            ELSE r.realTimeRecognition
        stopped == StopRecognition(
                     [rest EXCEPT !.shouldStopRecognition = TRUE,
                                  !.isRecording = FALSE,
                                  !.isProcessing = TRUE])
    IN  IF ~hasAudio
        THEN /\ page' = RecognitionEffect(page,
                  [stopped EXCEPT !.isProcessing = FALSE, !.error = TRUE,
                                  !.preRequestedActive = FALSE])
             /\ UNCHANGED api
        ELSE /\ SubmitCall(page.sessionId, PageWords[r.wordIndex].wordId,
                           responseTime, capturedRealTimeRecognition)
             /\ page' = RecognitionEffect(page,
                  [stopped EXCEPT !.awaiting = Append(@,
                      [wordIndex |-> r.wordIndex, words |-> r.words])])

\* the recorder mediaRecorderRef points to stops, by the stop button or by
\* its auto-stop timer
RecorderStop(hasAudio, responseTime) ==
    /\ page.mounted
    /\ page.recorder # NoRecorder
    /\ OnStop(page.recorder, [page EXCEPT !.recorder = NoRecorder],
              hasAudio, responseTime)

\* an earlier recorder stops, by its auto-stop timer or because the tracks
\* of its stream were stopped when the newer stream was obtained
EarlierRecorderStop(hasAudio, responseTime) ==
    /\ page.mounted
    /\ \E i \in DOMAIN page.earlier :
         LET Others(j) == IF j < i THEN page.earlier[j] ELSE page.earlier[j + 1]
         IN  OnStop(page.earlier[i],
                    [page EXCEPT !.earlier =
                        [j \in 1..(Len(page.earlier) - 1) |-> Others(j)]],
                    hasAudio, responseTime)

\* submitPronunciation resolves and onstop goes on after its await, with the
\* currentWordIndex and the session its closure captured
SubmitResolved(isCorrect) ==
    /\ page.mounted
    /\ page.awaiting # <<>>
    /\ SubmitEffect(isCorrect)
    /\ page' = RecognitionEffect(page,
          [page EXCEPT !.lastFeedback = IF isCorrect THEN "correct" ELSE "incorrect",
                       !.showFeedback = TRUE, !.isProcessing = FALSE,
                       !.realTimeRecognition = "",
                       !.realTimeRecognitionRef = "",
                       !.preRequestedActive = page.recorder # NoRecorder,
                       !.words = [Head(page.awaiting).words EXCEPT
                                    ![Head(page.awaiting).wordIndex] = isCorrect],
                       !.feedbackWordIndex = Head(page.awaiting).wordIndex,
                       !.awaiting = Tail(@)])

\* a moveToNextWord that ends the game from whatever word is shown
MoveToNextWordEndsGame ==
    /\ UserCanAct
    /\ \/ page.showFeedback \/ page.isProcessing
       \/ ~page.isRecording /\ ~page.showFeedback /\ ~page.isProcessing
       \/ ~page.isRecording /\ ~page.isStarting
    /\ EndGame(page.sessionId)
    /\ page' = [page EXCEPT !.gameComplete = TRUE]

\* moveToNextWord, from the next button (shown with feedback or processing),
\* the skip button (enabled when idle) or an arrow key (SwipeCard enabled);
\* on the last word it is endGame
MoveToNextWord ==
    /\ UserCanAct
    /\ \/ page.showFeedback \/ page.isProcessing
       \/ ~page.isRecording /\ ~page.showFeedback /\ ~page.isProcessing
       \/ ~page.isRecording /\ ~page.isStarting
    /\ IF page.currentWordIndex < Len(PageWords)
       THEN /\ page' = RecognitionEffect(page,
                 WordChangeEffect([page EXCEPT !.currentWordIndex = @ + 1]))
            /\ UNCHANGED api
       ELSE /\ EndGame(page.sessionId)
            /\ page' = [page EXCEPT !.gameComplete = TRUE]

(***************************************************************************)
(* Inputs the callers can send.                                            *)
(***************************************************************************)
NoSuchId == 9

SessionIdInputs == SessionIds \cup {NoSuchId}

WordIdInputs(sessionId) ==
    LET k == FindSession(sessionId)
    IN  (IF k = 0 THEN {} ELSE WordIdsOf(mockGameSessions[k].words)) \cup {NoSuchId}

DoLogin == UNCHANGED page /\ \E u \in Usernames, p \in Passwords : Login(u, p)
DoLogout == UNCHANGED page /\ Logout
DoCreateDeck == UNCHANGED page /\ CreateDeck
DoDeleteDeck == UNCHANGED page /\ \E d \in DeckIds : DeleteDeck(d)
DoAddWord == UNCHANGED page /\ \E d \in DeckIds : AddWord(d)
DoDeleteWord == UNCHANGED page /\ \E w \in WordIds : DeleteWord(w)
DoStartGame == UNCHANGED page /\ \E d \in DeckIds \cup {NoSuchId} : StartGame(d)
DoSubmitCall ==
    /\ UNCHANGED page
    /\ \E sid \in SessionIdInputs : \E wid \in WordIdInputs(sid) :
         \E rt \in ResponseTimes : \E text \in RecognitionTexts :
            SubmitCall(sid, wid, rt, text)
DoSubmitEffect == UNCHANGED page /\ \E c \in BOOLEAN : SubmitEffect(c)
DoEndGame == UNCHANGED page /\ \E sid \in SessionIdInputs : EndGame(sid)
DoGetStatistics ==
    /\ UNCHANGED page
    /\ \E u \in {Absent, "student-1"} : \E d \in {Absent, "all"} : GetStatistics(u, d)
DoRenderTopWrongWords == UNCHANGED page /\ RenderTopWrongWords("student-1")

(***************************************************************************)
(* Spec: a session's life over the word store as shipped.                  *)
(***************************************************************************)
Next ==
    \/ DoLogin
    \/ DoLogout
    \/ DoStartGame
    \/ DoSubmitCall
    \/ DoSubmitEffect
    \/ DoEndGame

Spec == Init /\ [][Next]_vars

(***************************************************************************)
(* SpecStore: sessions started while decks and words are administered.     *)
(***************************************************************************)
NextStore ==
    \/ DoLogin
    \/ DoCreateDeck
    \/ DoDeleteDeck
    \/ DoAddWord
    \/ DoDeleteWord
    \/ DoStartGame
    \/ DoEndGame

SpecStore == Init /\ [][NextStore]_vars

(***************************************************************************)
(* SpecScore: endGame applied to sessions in every state of grading.  The  *)
(* initial states are the sessions startGame and submitPronunciation       *)
(* leave behind for student1: the words of a deck, each either untouched   *)
(* or graded once with a response time of ScoreTimes.                      *)
(***************************************************************************)
ScoreTimes == {500, 800, 1200, 5000}
ScoreDecks == {1, 2, NoSuchId}

Gradings == {NotAttempted} \cup
            [n : {1}, isCorrect : BOOLEAN, responseTime : ScoreTimes]

InitScore ==
    /\ mockUsers = InitUsers
    /\ mockDecks = InitDecks
    /\ mockWords = InitWords
    /\ mockStatistics = <<>>
    /\ currentUser = "student-1"
    /\ page = NoPage
    /\ now = Now0 + 1
    /\ inflight = <<>>
    /\ adminCalls = 0
    /\ endReturns = << <<>> >>
    /\ associations = {}
    /\ \E d \in ScoreDecks :
         LET InDeck(w) == w.deckId = d
             words == SelectSeq(InitWords, InDeck)
             ids == {words[i].id : i \in DOMAIN words}
         IN  \E graded \in [ids -> Gradings] :
               /\ attempts = <<graded>>
               /\ mockGameSessions =
                    << [id |-> Now0, userId |-> "student-1", deckId |-> d,
                        startTime |-> Now0, endTime |-> Undefined,
                        score |-> Undefined,
                        words |-> [i \in DOMAIN words |->
                                     [wordId |-> words[i].id,
                                      responseTime |-> graded[words[i].id].responseTime,
                                      isCorrect |-> graded[words[i].id].isCorrect]]] >>
               /\ IF \A w \in ids : graded[w].n = 0
                  THEN /\ lastAttempt = NoAttempt
                       /\ result = Resolved("startGame")
                  ELSE /\ \E w \in ids :
                            /\ graded[w].n = 1
                            /\ lastAttempt = [sessionId |-> Now0, wordId |-> w,
                                              ended |-> FALSE, live |-> TRUE]
                       /\ result = Resolved("submitPronunciation")

NextScore == DoEndGame

SpecScore == InitScore /\ [][NextScore]_vars

(***************************************************************************)
(* SpecStats: statistics over the sessions of one user.  The initial       *)
(* states are two sessions student1 has started on deck 2, one after the   *)
(* other, each word untouched or graded once; they are ended, and the      *)
(* statistics are read and shown, in every order.                          *)
(***************************************************************************)
StatsGradings ==
    { NotAttempted,
      [n |-> 1, isCorrect |-> TRUE,  responseTime |-> 500],
      [n |-> 1, isCorrect |-> FALSE, responseTime |-> 1200] }

GradedWords(shuffled, graded) ==
    [i \in DOMAIN shuffled |->
        [wordId |-> shuffled[i].id,
         responseTime |-> graded[shuffled[i].id].responseTime,
         isCorrect |-> graded[shuffled[i].id].isCorrect]]

InitStats ==
    /\ mockUsers = InitUsers
    /\ mockDecks = InitDecks
    /\ mockWords = InitWords
    /\ mockStatistics = <<>>
    /\ currentUser = "student-1"
    /\ page = NoPage
    /\ now = Now0 + 2
    /\ inflight = <<>>
    /\ adminCalls = 0
    /\ endReturns = << <<>>, <<>> >>
    /\ associations = {}
    /\ lastAttempt = NoAttempt
    /\ result = Resolved("startGame")
    /\ LET InDeck(w) == w.deckId = 2
           words == SelectSeq(InitWords, InDeck)
           ids == {words[i].id : i \in DOMAIN words}
       IN  \E first, second \in [ids -> StatsGradings] :
             \E shuffled \in Shuffles(words) :
               /\ attempts = <<first, second>>
               /\ mockGameSessions =
                    << [id |-> Now0, userId |-> "student-1", deckId |-> 2,
                        startTime |-> Now0, endTime |-> Undefined,
                        score |-> Undefined,
                        words |-> GradedWords(words, first)],
                       [id |-> Now0 + 1, userId |-> "student-1", deckId |-> 2,
                        startTime |-> Now0 + 1, endTime |-> Undefined,
                        score |-> Undefined,
                        words |-> GradedWords(shuffled, second)] >>

NextStats ==
    \/ DoGetStatistics
    \/ DoRenderTopWrongWords
    \/ DoEndGame

SpecStats == InitStats /\ [][NextStats]_vars

(***************************************************************************)
(* SpecSessions: two sessions of one user in progress at once.  The        *)
(* initial states are two sessions student1 has started on deck 2, one     *)
(* after the other, nothing graded yet; attempts are submitted to them and *)
(* they are ended in every order.                                          *)
(***************************************************************************)
InitSessions ==
    /\ mockUsers = InitUsers
    /\ mockDecks = InitDecks
    /\ mockWords = InitWords
    /\ mockStatistics = <<>>
    /\ currentUser = "student-1"
    /\ page = NoPage
    /\ now = Now0 + 2
    /\ inflight = <<>>
    /\ adminCalls = 0
    /\ endReturns = << <<>>, <<>> >>
    /\ associations = {}
    /\ lastAttempt = NoAttempt
    /\ result = Resolved("startGame")
    /\ LET InDeck(w) == w.deckId = 2
           words == SelectSeq(InitWords, InDeck)
           ids == {words[i].id : i \in DOMAIN words}
       IN  \E first, second \in Shuffles(words) :
               /\ attempts = << [w \in ids |-> NotAttempted],
                                [w \in ids |-> NotAttempted] >>
               /\ mockGameSessions =
                    << [id |-> Now0, userId |-> "student-1", deckId |-> 2,
                        startTime |-> Now0, endTime |-> Undefined,
                        score |-> Undefined,
                        words |-> NewGameWords(first)],
                       [id |-> Now0 + 1, userId |-> "student-1", deckId |-> 2,
                        startTime |-> Now0 + 1, endTime |-> Undefined,
                        score |-> Undefined,
                        words |-> NewGameWords(second)] >>

NextSessions ==
    \/ DoSubmitCall
    \/ DoSubmitEffect
    \/ DoEndGame

SpecSessions == InitSessions /\ [][NextSessions]_vars

(***************************************************************************)
(* SpecPage: one game on the game page.  The initial states are the page   *)
(* after startGame has resolved for student1 on deck 2, with the           *)
(* microphone stream requested on mount granted or not.                    *)
(***************************************************************************)
InitPage ==
    /\ mockUsers = InitUsers
    /\ mockDecks = InitDecks
    /\ mockWords = InitWords
    /\ mockStatistics = <<>>
    /\ currentUser = "student-1"
    /\ now = Now0 + 1
    /\ inflight = <<>>
    /\ adminCalls = 0
    /\ endReturns = << <<>> >>
    /\ associations = {}
    /\ lastAttempt = NoAttempt
    /\ result = Resolved("startGame")
    /\ LET InDeck(w) == w.deckId = 2
           words == SelectSeq(InitWords, InDeck)
           ids == {words[i].id : i \in DOMAIN words}
       IN  \E shuffled \in Shuffles(words) :
               /\ attempts = << [w \in ids |-> NotAttempted] >>
               /\ mockGameSessions =
                    << [id |-> Now0, userId |-> "student-1", deckId |-> 2,
                        startTime |-> Now0, endTime |-> Undefined,
                        score |-> Undefined,
                        words |-> NewGameWords(shuffled)] >>
    /\ \E preRequestedActive \in BOOLEAN : page = MountedPage(Now0, preRequestedActive)

\* a recorder without the auto-stop timer: only the stop button, which is
\* rendered while the page is in the recording state, stops it
DoRecorderStopByButton ==
    /\ UserCanAct
    /\ page.isRecording /\ ~page.showFeedback /\ ~page.isProcessing
    /\ \E hasAudio \in BOOLEAN : \E rt \in ResponseTimes :
            RecorderStop(hasAudio, rt)

\* the recorder stops: the stop button (handleRecord while recording) or
\* the auto-stop timer called mediaRecorder.stop()
DoRecorderStop ==
    \E hasAudio \in BOOLEAN : \E rt \in ResponseTimes : RecorderStop(hasAudio, rt)
DoEarlierRecorderStop ==
    \E hasAudio \in BOOLEAN : \E rt \in ResponseTimes :
        EarlierRecorderStop(hasAudio, rt)
DoSubmitResolved == \E c \in BOOLEAN : SubmitResolved(c)
DoRecognitionEnd == \E i \in DOMAIN page.recognitions : RecognitionEnd(i)

NextPage ==
    \/ HandleRecordStart
    \/ MicrophoneGranted
    \/ MicrophoneDenied
    \/ RecognitionResult
    \/ DoRecognitionEnd
    \/ DoRecorderStop
    \/ DoEarlierRecorderStop
    \/ DoSubmitResolved
    \/ MoveToNextWord

SpecPage == InitPage /\ [][NextPage]_vars

(***************************************************************************)
(* SpecPageFair: the game page with what the browser guarantees.  The      *)
(* auto-stop timer of a recorder fires five seconds after its start, and a *)
(* recorder that is stopped delivers its stop event: a recorder that is    *)
(* recording does not record forever.                                      *)
(***************************************************************************)
SpecPageFair ==
    /\ InitPage
    /\ [][NextPage]_vars
    /\ WF_vars(DoRecorderStop)
    /\ WF_vars(DoEarlierRecorderStop)

(***************************************************************************)
(* SpecUsers: accounts.  Users register and sign in, the admin associates  *)
(* students with teachers, and whoever is signed in lists the students.    *)
(***************************************************************************)
StaffNames == {"teacher1", "admin"}
StaffPasswords == {"password123", "cantonese"}

UsersWithRole(role) ==
    {mockUsers[i].id : i \in {j \in DOMAIN mockUsers : mockUsers[j].role = role}}

DoRegister ==
    /\ UNCHANGED page
    /\ \E u \in RegisterNames : \E r \in RegisterRoles : Register(u, r)
DoLoginStaff ==
    /\ UNCHANGED page
    /\ \E u \in StaffNames : \E p \in StaffPasswords : Login(u, p)
DoGetStudents == UNCHANGED page /\ GetStudents
DoAssociateStudentWithTeacher ==
    /\ UNCHANGED page
    /\ \E s \in UsersWithRole("student") : \E t \in UsersWithRole("teacher") :
         AssociateStudentWithTeacher(s, t)

NextUsers ==
    \/ DoRegister
    \/ DoLoginStaff
    \/ DoLogout
    \/ DoGetStudents
    \/ DoAssociateStudentWithTeacher

SpecUsers == Init /\ [][NextUsers]_vars

(***************************************************************************)
(* Vocabulary of the properties.                                           *)
(***************************************************************************)
Sessions == DOMAIN mockGameSessions

Ended(k) == IsEnded(mockGameSessions[k])

\* this step is an endGame that found session k
EndStep(k) == Len(endReturns'[k]) = Len(endReturns[k]) + 1

\* this step is a submitPronunciation landing
SubmitStep == inflight # <<>> /\ inflight' = Tail(inflight)

UserIds == {mockUsers[i].id : i \in DOMAIN mockUsers}

StatsOf(u) ==
    IF StatsKey(u) \in DOMAIN mockStatistics
    THEN mockStatistics[StatsKey(u)] ELSE EmptyStats

EndedSessionsOf(u) ==
    {k \in Sessions : mockGameSessions[k].userId = u /\ Ended(k)}

StoredEntry(k, w) ==
    LET i == CHOOSE j \in DOMAIN mockGameSessions[k].words :
                 mockGameSessions[k].words[j].wordId = w
    IN  mockGameSessions[k].words[i]

\* floor(x / y) for x >= 0, y > 0, from its defining inequalities
FloorOfQuotient(x, y) == CHOOSE q \in 0..x : q * y <= x /\ x < (q + 1) * y

\* max(0, correctCount*100 - floor(averageResponseTimeMs/1000)*10) over the
\* entries given, averageResponseTimeMs being total / count
FormulaScore(entries) ==
    LET IsCorrect(e) == e.isCorrect
        correctCount == Len(SelectSeq(entries, IsCorrect))
        penalty == FloorOfQuotient(SumTimes(entries), 1000 * Len(entries)) * 10
    IN  IF correctCount * 100 - penalty > 0 THEN correctCount * 100 - penalty ELSE 0

(***************************************************************************)
(* C1: endGame is idempotent: every call on one session returns the same   *)
(* score, and a user's totalGames and per-word error counts count each     *)
(* ended session once.                                                     *)
(***************************************************************************)
C1_EndIdempotent ==
    /\ \A k \in Sessions : \A i, j \in DOMAIN endReturns[k] :
            endReturns[k][i] = endReturns[k][j]
    /\ \A u \in UserIds :
         /\ StatsOf(u).totalGames = Cardinality(EndedSessionsOf(u))
         /\ \A i \in DOMAIN StatsOf(u).topWrongWords :
              LET tw == StatsOf(u).topWrongWords[i]
              IN  tw.wrongCount <=
                    Cardinality({k \in EndedSessionsOf(u) :
                                   tw.wordId \in WordIdsOf(mockGameSessions[k].words)})

(***************************************************************************)
(* C2: a submitPronunciation that lands on an ended session fails with     *)
(* SessionEndedError and leaves every session's stored attempts unchanged. *)
(***************************************************************************)
C2_SubmitAfterEndRejected ==
    [][ (/\ SubmitStep
         /\ LET k == FindSession(Head(inflight).sessionId)
            IN  k # 0 /\ Ended(k))
        => (/\ result'.error = "SessionEndedError"
            /\ mockGameSessions' = mockGameSessions) ]_vars

(***************************************************************************)
(* C3: finalization is atomic: no attempt that was in flight when endGame  *)
(* read the attempts is written afterwards, and the stored attempts of an  *)
(* ended session always give the score endGame computed.                   *)
(***************************************************************************)
C3_FinalizationAtomic ==
    /\ ~(lastAttempt.ended /\ lastAttempt.live)
    /\ \A k \in Sessions :
         Ended(k) => mockGameSessions[k].score = ComputeScore(mockGameSessions[k].words)

(***************************************************************************)
(* C4: a session that startGame creates lists the words the deck holds at  *)
(* that moment, each exactly once: as many entries as the deck has words,  *)
(* no word id twice, the same set of ids.                                  *)
(***************************************************************************)
C4_StartReturnsPermutation ==
    [][ Len(mockGameSessions') = Len(mockGameSessions) + 1
        => LET session == mockGameSessions'[Len(mockGameSessions')]
               deck == getWordsByDeck(session.deckId)
           IN  /\ Len(session.words) = Len(deck)
               /\ \A i, j \in DOMAIN session.words :
                     session.words[i].wordId = session.words[j].wordId => i = j
               /\ WordIdsOf(session.words) = {deck[i].id : i \in DOMAIN deck} ]_vars

\* a session over a deck that gained a word, in another order than stored
C4_Witness ==
    \E k \in Sessions :
        LET words == mockGameSessions[k].words
        IN  /\ Len(words) >= 3
            /\ \E i \in DOMAIN words : words[i].wordId >= Now0
            /\ \E i \in DOMAIN words : i < Len(words) /\ words[i].wordId > words[i+1].wordId

(***************************************************************************)
(* C5: startGame by a logged-in user on a deck that has no words fails     *)
(* with EmptyDeckError and creates no session.                             *)
(***************************************************************************)
C5_EmptyDeckRejected ==
    [][ \A d \in DeckIds :
          (StartGame(d) /\ currentUser # NoUser /\ getWordsByDeck(d) = <<>>)
          => (/\ result'.error = "EmptyDeckError"
              /\ mockGameSessions' = mockGameSessions) ]_vars

(***************************************************************************)
(* C6: the score endGame computes is a number that is never negative, is 0 *)
(* when no word read was graded correct, and is not larger for attempts    *)
(* with the same number of correct words and a larger average time.        *)
(***************************************************************************)
AttemptLists(n) ==
    [1..n -> [wordId : {0}, isCorrect : BOOLEAN,
              responseTime : ResponseTimes \cup {0}]]

C6_ScoreBounds ==
    [][ \A k \in Sessions :
          EndStep(k) =>
            LET words == mockGameSessions[k].words
                score == mockGameSessions'[k].score
            IN  /\ IsNum(score)
                /\ score.v >= 0
                /\ CorrectCount(words) = 0 => score.v = 0
                /\ \A slower \in AttemptLists(Len(words)) :
                      (/\ CorrectCount(slower) = CorrectCount(words)
                       /\ SumTimes(slower) >= SumTimes(words))
                      => ComputeScore(slower).v <= score.v ]_vars

(***************************************************************************)
(* C7: for a session with at least one word, the score endGame stores and  *)
(* returns is max(0, correctCount*100 - floor(averageResponseTimeMs/1000)  *)
(* *10), the average being over all entries of the session, one per word.  *)
(***************************************************************************)
C7_ScoreFormula ==
    [][ \A k \in Sessions :
          (EndStep(k) /\ Len(mockGameSessions[k].words) >= 1) =>
            /\ mockGameSessions'[k].score = Num(FormulaScore(mockGameSessions[k].words))
            /\ endReturns'[k][Len(endReturns'[k])] = mockGameSessions'[k].score ]_vars

\* deck [A, B, C]: A correct in 800 ms, B incorrect in 1200 ms, C correct in
\* 500 ms, ended with score 200
C7_Witness ==
    \E k \in Sessions :
        /\ Ended(k)
        /\ mockGameSessions[k].words =
              << [wordId |-> 1, responseTime |-> 800, isCorrect |-> TRUE],
                 [wordId |-> 2, responseTime |-> 1200, isCorrect |-> FALSE],
                 [wordId |-> 3, responseTime |-> 500, isCorrect |-> TRUE] >>
        /\ mockGameSessions[k].score = Num(200)

(***************************************************************************)
(* C8: the score of an ended session is a defined number, and it is 0 when *)
(* no word of the session was attempted.                                   *)
(***************************************************************************)
C8_ScoreDefined ==
    \A k \in Sessions :
        Ended(k) =>
          /\ IsNum(mockGameSessions[k].score)
          /\ (\A w \in DOMAIN attempts[k] : attempts[k][w].n = 0)
                => mockGameSessions[k].score.v = 0

(***************************************************************************)
(* C9: at endGame a word that never received an attempt counts as          *)
(* incorrect with the longest recording time as its response time, in the  *)
(* average the score is computed from.                                     *)
(***************************************************************************)
WithSentinels(k) ==
    [i \in DOMAIN mockGameSessions[k].words |->
        LET e == mockGameSessions[k].words[i]
        IN  IF attempts[k][e.wordId].n = 0
            THEN [wordId |-> e.wordId, isCorrect |-> FALSE,
                  responseTime |-> MaxRecordingMs]
            ELSE e]

C9_PendingCountsAsSlowest ==
    [][ \A k \in Sessions :
          (EndStep(k) /\ Len(mockGameSessions[k].words) >= 1) =>
            mockGameSessions'[k].score = Num(FormulaScore(WithSentinels(k))) ]_vars

(***************************************************************************)
(* C10: a session holds exactly one entry per word it was created with,    *)
(* and the entry of a word holds the attempt written for it most recently  *)
(* (the initial entry if none was).                                        *)
(***************************************************************************)
C10_LastWriteWins ==
    \A k \in Sessions :
        LET words == mockGameSessions[k].words
        IN  /\ WordIdsOf(words) = DOMAIN attempts[k]
            /\ Len(words) = Cardinality(DOMAIN attempts[k])
            /\ \A w \in DOMAIN attempts[k] :
                 /\ StoredEntry(k, w).isCorrect = attempts[k][w].isCorrect
                 /\ StoredEntry(k, w).responseTime = attempts[k][w].responseTime

\* a word of an in-progress session graded twice, the second grading stored
C10_Witness ==
    \E k \in Sessions : \E w \in DOMAIN attempts[k] :
        /\ ~Ended(k)
        /\ attempts[k][w].n >= 2
        /\ lastAttempt.sessionId = mockGameSessions[k].id
        /\ lastAttempt.wordId = w
        /\ StoredEntry(k, w).isCorrect
        /\ StoredEntry(k, w).responseTime = 1200

(***************************************************************************)
(* Vocabulary of the statistics properties.                                *)
(***************************************************************************)
StatsAfter(u) ==
    IF StatsKey(u) \in DOMAIN mockStatistics'
    THEN mockStatistics'[StatsKey(u)] ELSE EmptyStats

\* this step is the endGame that completes session k
CompletionStep(k) == EndStep(k) /\ ~Ended(k)

\* the wrong-word entry of word w in a statistics record, zeros if none
WrongWordOf(stats, w) ==
    LET at == {i \in DOMAIN stats.topWrongWords : stats.topWrongWords[i].wordId = w}
    IN  IF at = {} THEN [wordId |-> w, wrongCount |-> 0, totalAttempts |-> 0,
                         ratio |-> <<0, 1>>]
        ELSE stats.topWrongWords[CHOOSE i \in at : TRUE]

\* a goes before b: larger incorrect / total, then larger total, then word id
RankedBefore(a, b) ==
    LET left == a.wrongCount * b.totalAttempts
        right == b.wrongCount * a.totalAttempts
    IN  \/ left > right
        \/ left = right /\ a.totalAttempts > b.totalAttempts
        \/ left = right /\ a.totalAttempts = b.totalAttempts /\ a.wordId < b.wordId

(***************************************************************************)
(* C11: the completion of a session sets the user's currentStreak by the   *)
(* calendar rule.  All completions of a behaviour fall on one day (the     *)
(* clock advances by milliseconds), so the rule gives 1 on the first       *)
(* completion and leaves the streak, which is at least 1, unchanged on     *)
(* every further one.                                                      *)
(***************************************************************************)
C11_StreakFollowsCalendar ==
    [][ \A k \in Sessions :
          CompletionStep(k) =>
            LET u == mockGameSessions[k].userId
            IN  /\ StatsAfter(u).currentStreak >= 1
                /\ IF EndedSessionsOf(u) = {}
                   THEN StatsAfter(u).currentStreak = 1
                   ELSE StatsAfter(u).currentStreak = StatsOf(u).currentStreak ]_vars

(***************************************************************************)
(* C12: over every step a user's longestStreak does not decrease, and      *)
(* after the step it is at least the user's currentStreak.                 *)
(***************************************************************************)
C12_LongestStreakMonotone ==
    [][ \A u \in UserIds :
          /\ StatsAfter(u).longestStreak >= StatsOf(u).longestStreak
          /\ StatsAfter(u).longestStreak >= StatsAfter(u).currentStreak ]_vars

\* statistics that were generated by a read and then counted a completion
C12_Witness ==
    /\ EndedSessionsOf("student-1") # {}
    /\ StatsOf("student-1").longestStreak = 5
    /\ StatsOf("student-1").currentStreak = 3
    /\ StatsOf("student-1").totalGames >= 6

(***************************************************************************)
(* C13: the completion of a session adds one to totalAttempts of every     *)
(* word graded in it, and one to the word's count of incorrect attempts    *)
(* exactly when its grading was wrong.                                     *)
(***************************************************************************)
C13_ErrorStatsCountGradedWords ==
    [][ \A k \in Sessions :
          CompletionStep(k) =>
            \A w \in DOMAIN attempts[k] :
              attempts[k][w].n >= 1 =>
                LET u == mockGameSessions[k].userId
                    before == WrongWordOf(StatsOf(u), w)
                    after == WrongWordOf(StatsAfter(u), w)
                IN  /\ after.totalAttempts = before.totalAttempts + 1
                    /\ after.wrongCount = before.wrongCount
                          + (IF StoredEntry(k, w).isCorrect THEN 0 ELSE 1) ]_vars

(***************************************************************************)
(* C14: the top wrong-words list the statistics page shows is ordered by   *)
(* descending incorrect / total attempts, ties by descending total         *)
(* attempts, then by word id.                                              *)
(***************************************************************************)
C14_TopWrongWordsRanked ==
    [][ RenderTopWrongWords("student-1") =>
          LET shown == StatsAfter("student-1").topWrongWords
          IN  \A i, j \in DOMAIN shown : i < j => RankedBefore(shown[i], shown[j]) ]_vars

(***************************************************************************)
(* C15: totalGames, averageScore and bestScore are the count, the mean and *)
(* the maximum of the scores of the sessions a user has ended, whatever    *)
(* the scores are, 0 included.  Step by step: the completion of a session  *)
(* with score s adds one to totalGames, moves averageScore to the mean     *)
(* with s counted in, and bestScore to the larger of bestScore and s.      *)
(***************************************************************************)
C15_SummaryMatchesHistory ==
    [][ \A k \in Sessions :
          (CompletionStep(k) /\ IsNum(mockGameSessions'[k].score)) =>
            LET u == mockGameSessions[k].userId
                s == mockGameSessions'[k].score.v
                before == StatsOf(u)
                after == StatsAfter(u)
            IN  /\ after.totalGames = before.totalGames + 1
                /\ after.averageScore =
                      Frac(before.averageScore[1] * before.totalGames
                             + s * before.averageScore[2],
                           before.averageScore[2] * (before.totalGames + 1))
                /\ after.bestScore = Max(before.bestScore, s) ]_vars

(***************************************************************************)
(* C16: a getStatistics call leaves the stored statistics as they were.    *)
(***************************************************************************)
C16_ReadsDoNotMutate ==
    [][ \A u \in {Absent, "student-1"} : \A d \in {Absent, "all"} :
          GetStatistics(u, d) => mockStatistics' = mockStatistics ]_vars

(***************************************************************************)
(* C17: a submitPronunciation that lands, or an endGame, for one session   *)
(* id leaves the attempts, the score and the end time of every session     *)
(* with another id as they were.                                           *)
(***************************************************************************)
C17_SessionsIndependent ==
    [][ \A k \in Sessions :
          LET id == mockGameSessions[k].id
              touched ==
                \/ SubmitStep /\ Head(inflight).sessionId # id
                \/ \E sid \in SessionIdInputs \ {id} : EndGame(sid)
          IN  touched =>
                /\ mockGameSessions'[k].words = mockGameSessions[k].words
                /\ mockGameSessions'[k].score = mockGameSessions[k].score
                /\ mockGameSessions'[k].endTime = mockGameSessions[k].endTime ]_vars

\* the first session holds a graded word while the second one, in which the
\* same word is untouched, has been ended
C17_Witness ==
    /\ Len(mockGameSessions) = 2
    /\ ~Ended(1)
    /\ Ended(2)
    /\ \E w \in DOMAIN attempts[1] :
          /\ attempts[1][w].n >= 1
          /\ StoredEntry(1, w).responseTime # 0
          /\ attempts[2][w].n = 0
          /\ StoredEntry(2, w).responseTime = 0

(***************************************************************************)
(* C18: the verdict of a submission is determined by the submission: for   *)
(* a request about to be graded (a word of a session, a recognized text)   *)
(* only one of the two verdicts can come back and be written.              *)
(***************************************************************************)
C18_GradingDeterministic ==
    (/\ inflight # <<>>
     /\ FindSession(Head(inflight).sessionId) # 0
     /\ Head(inflight).wordId \in DOMAIN attempts[FindSession(Head(inflight).sessionId)])
    => ~(/\ ENABLED (SubmitEffect(TRUE) /\ UNCHANGED page)
         /\ ENABLED (SubmitEffect(FALSE) /\ UNCHANGED page))

(***************************************************************************)
(* C20: every submitPronunciation that lands resolves with a verdict, and  *)
(* when the request carries no recognized text (the engine has no other    *)
(* transcription of the audio) the verdict, which is what is written to    *)
(* the word, is incorrect.                                                 *)
(***************************************************************************)
C20_GradingFailsClosed ==
    [][ SubmitStep =>
          LET req == Head(inflight)
              k == FindSession(req.sessionId)
          IN  /\ result' = Resolved("submitPronunciation")
              /\ (/\ req.realTimeRecognition = ""
                  /\ k # 0
                  /\ req.wordId \in DOMAIN attempts[k])
                 => ~attempts'[k][req.wordId].isCorrect ]_vars

(***************************************************************************)
(* C19: the transcription a recording submits is the recognition text      *)
(* that recording showed the learner: the latest text its recognizer       *)
(* produced, empty if it produced none.                                    *)
(***************************************************************************)
C19_SubmitsWhatWasShown ==
    [][ (/\ page.recorder # NoRecorder
         /\ page'.recorder = NoRecorder
         /\ Len(inflight') = Len(inflight) + 1)
        => inflight'[Len(inflight')].realTimeRecognition = page.recorder.heard ]_vars

(***************************************************************************)
(* C21: a submitPronunciation that lands for a session id no session has   *)
(* fails with SessionNotFoundError, one that lands for a word id that is   *)
(* not a word of its session fails with UnknownWordError, and in both      *)
(* cases sessions and statistics stay as they were.                        *)
(***************************************************************************)
C21_UnknownSubmitRejected ==
    [][ SubmitStep =>
          LET req == Head(inflight)
              k == FindSession(req.sessionId)
          IN  /\ k = 0 =>
                   /\ result' = Rejected("submitPronunciation",
                                         "SessionNotFoundError")
                   /\ UNCHANGED <<mockGameSessions, mockStatistics>>
              /\ (k # 0 /\ req.wordId \notin WordIdsOf(mockGameSessions[k].words)) =>
                   /\ result' = Rejected("submitPronunciation",
                                         "UnknownWordError")
                   /\ UNCHANGED <<mockGameSessions, mockStatistics>> ]_vars

(***************************************************************************)
(* C22: the list of students a teacher gets holds only students that have  *)
(* been associated with that teacher.                                      *)
(***************************************************************************)
C22_TeacherSeesOwnStudents ==
    (/\ result.op = "getStudents"
     /\ result.caller \in UsersWithRole("teacher"))
    => \A i \in DOMAIN result.students :
          <<result.students[i].id, result.caller>> \in associations

(***************************************************************************)
(* C23: a register call for a username some user already has is rejected   *)
(* and leaves the users as they were, and no two users ever share a        *)
(* username.                                                               *)
(***************************************************************************)
RegisterStep == result'.op = "register" /\ result' # result

C23_UsernamesUnique ==
    [][ /\ (RegisterStep /\ UsernameTaken(result'.username)) =>
              /\ result'.error = "Username already exists"
              /\ mockUsers' = mockUsers
        /\ \A i, j \in DOMAIN mockUsers' :
              mockUsers'[i].username = mockUsers'[j].username => i = j ]_vars

\* a duplicate has been rejected after new users were added
C23_Witness ==
    /\ result.op = "register"
    /\ result.error = "Username already exists"
    /\ result.username = "duplicate"
    /\ Len(mockUsers) = Len(InitUsers) + 1

(***************************************************************************)
(* C24: every recording that starts stops, after which the page is not in  *)
(* the recording state: recorder number r recording leads to r no longer   *)
(* recording with isRecording false.                                       *)
(***************************************************************************)
Recording(r) ==
    \/ page.recorder.rec = r
    \/ \E i \in DOMAIN page.earlier : page.earlier[i].rec = r

C24_RecordingStops ==
    \A r \in 1..MaxRecordings :
        Recording(r) ~> (~Recording(r) /\ ~page.isRecording)

\* two recordings were started, and both have stopped
C24_Witness ==
    /\ page.recordings = 2
    /\ ~Recording(1)
    /\ ~Recording(2)
    /\ ~page.isRecording

(***************************************************************************)
(* C25: the words of the session are pairwise different and are shown in   *)
(* order, one at a time: currentWordIndex stays or goes up by one, never   *)
(* beyond the last word, and the game is ended (endGame called, the        *)
(* completion screen set) only while the last word is shown.               *)
(***************************************************************************)
C25_WordsInOrder ==
    [][ /\ \A i, j \in DOMAIN PageWords :
              PageWords[i].wordId = PageWords[j].wordId => i = j
        /\ page'.currentWordIndex \in
              {page.currentWordIndex, page.currentWordIndex + 1}
        /\ page'.currentWordIndex <= Len(PageWords)
        /\ (EndStep(1) \/ (page'.gameComplete /\ ~page.gameComplete))
              => page.currentWordIndex = Len(PageWords) ]_vars

\* the game was ended from the last word after the first was passed
C25_Witness ==
    /\ page.gameComplete
    /\ page.currentWordIndex = Len(PageWords)
    /\ page.currentWordIndex > 1
    /\ Len(endReturns[1]) = 1

C27_CompletionCountsLatestVerdicts ==
    page.gameComplete
    => Cardinality({i \in DOMAIN page.words : page.words[i]})
         = Cardinality({i \in DOMAIN PageWords :
                          /\ attempts[1][PageWords[i].wordId].n >= 1
                          /\ attempts[1][PageWords[i].wordId].isCorrect})

(***************************************************************************)
(* C28: at most one recorder is recording at any time.                     *)
(***************************************************************************)
C28_OneRecorder ==
    Cardinality({r \in 1..page.recordings : Recording(r)}) <= 1

(***************************************************************************)
(* C29: the feedback shown on the card is the verdict of the word that is  *)
(* shown.                                                                  *)
(***************************************************************************)
C29_FeedbackForShownWord ==
    (page.showFeedback /\ page.lastFeedback # "none")
    => page.feedbackWordIndex = page.currentWordIndex

(***************************************************************************)
(* C30: after a failed recording or a failed submission the game goes on:  *)
(* while an error is set and the game is not complete, the learner can     *)
(* record again or skip to the next word.                                  *)
(***************************************************************************)
C30_GameGoesOnAfterFailure ==
    (page.error /\ ~page.gameComplete)
    => (ENABLED HandleRecordStart \/ ENABLED MoveToNextWord)

====
